---- MODULE Spec2Model ----
(***************************************************************************)
(* Model of the retrying external-API client layer of the NewsAPI /       *)
(* LinkedIn post generator: ZAIClassifier, ImageGenerator, T2IGenerator.  *)
(*                                                                         *)
(* Text is modelled as a sequence of one-character strings, so that       *)
(* str.strip, str.split, str.startswith and slicing are computed the way  *)
(* Python computes them.                                                   *)
(***************************************************************************)
EXTENDS Integers, Sequences, FiniteSets, TLC

VARIABLES
    api_token,  \* ImageGenerator.api_token, read from the configuration at construction
    call,       \* call[t]: the client call worker thread t is running
    history,    \* image_generation_history.txt: the provenance records, oldest first
    images,     \* the images directory: path -> file
    clock,      \* wall clock, in seconds
    generations, \* image generations that entered the retry loop so far
    tpost,      \* theme extraction: the post handed to _extract_theme_from_post
    ttheme,     \* theme extraction: the value it returned
    tgen,       \* theme extraction: which generator ran ("none" before the call)
    searching,  \* NewsAPIClient: the search_multiple call in progress
    NEWS_API_KEY,   \* Config.NEWS_API_KEY, read from the environment
    app,        \* NewsAPIGUI: construction phase, api_connected, api_error
    view,       \* the widgets and stored fields of InputComponent and ResultsComponent
    workers,    \* workers[c]: the background threads of operation class c that are alive
    after_queue,    \* callbacks scheduled with root.after(0, ...), oldest first
    timers,     \* callbacks scheduled with a delay, not yet run
    dispatched  \* background tasks started so far, per operation class

cvars == <<api_token, call, history, images, clock, generations>>
tvars == <<tpost, ttheme, tgen>>
svars == <<searching>>
gvars == <<NEWS_API_KEY, app, view, workers, after_queue, timers, dispatched>>
vars == <<api_token, call, history, images, clock, generations, tpost, ttheme, tgen,
          searching, NEWS_API_KEY, app, view, workers, after_queue, timers, dispatched>>

(***************************************************************************)
(* Bounds of the model                                                     *)
(***************************************************************************)
MaxPieces == 4      \* a post of the theme specification is made of at most this many pieces
LongLen == 60       \* length of the long run of letters used to exceed the 100-character limit
MaxGenerations == 2 \* image generations that may enter the retry loop
MaxTime == 1        \* the clock stops advancing here
MaxTerms == 2       \* search terms handed to one search_multiple call
MaxTasks == 2       \* background tasks the user starts per operation class

(***************************************************************************)
(* Python string primitives                                                *)
(***************************************************************************)
Whitespace == {" ", "\n", "\t"}

\* positions of s that hold a character other than whitespace
NonBlank(s) == { i \in 1..Len(s) : s[i] \notin Whitespace }

\* str.lstrip()
LStrip(s) ==
    IF NonBlank(s) = {} THEN <<>>
    ELSE SubSeq(s, CHOOSE i \in NonBlank(s) : \A j \in NonBlank(s) : i <= j, Len(s))

\* str.rstrip()
RStrip(s) ==
    IF NonBlank(s) = {} THEN <<>>
    ELSE SubSeq(s, 1, CHOOSE i \in NonBlank(s) : \A j \in NonBlank(s) : j <= i)

\* str.strip()
Strip(s) == RStrip(LStrip(s))

\* str.split('\n'): the list of lines, one more than there are newlines; never the empty list
Split(s) ==
    LET seps == { i \in 1..Len(s) : s[i] = "\n" }
        n == Cardinality(seps)
        SepAt(k) == CHOOSE i \in seps : Cardinality({ j \in seps : j < i }) = k - 1
    IN  [ k \in 1..(n + 1) |->
            SubSeq(s,
                   IF k = 1 THEN 1 ELSE SepAt(k - 1) + 1,
                   IF k = n + 1 THEN Len(s) ELSE SepAt(k) - 1) ]

\* str.startswith(marker)
StartsWith(s, marker) ==
    /\ Len(s) >= Len(marker)
    /\ SubSeq(s, 1, Len(marker)) = marker

\* s[n:]
DropFirst(s, n) == SubSeq(s, n + 1, Len(s))

\* s[:n]
Take(s, n) == SubSeq(s, 1, IF Len(s) < n THEN Len(s) ELSE n)

(***************************************************************************)
(* Theme extraction (ImageGenerator and T2IGenerator carry the same code)  *)
(***************************************************************************)
ThemeLimit == 100

\* ['#', '**', 'Título:', 'Title:']
Markers ==
    << <<"#">>,
       <<"*", "*">>,
       <<"T", "í", "t", "u", "l", "o", ":">>,
       <<"T", "i", "t", "l", "e", ":">> >>

\* "business and technology"
DefaultTheme ==
    <<"b","u","s","i","n","e","s","s"," ","a","n","d"," ",
      "t","e","c","h","n","o","l","o","g","y">>

\* for marker in [...]: if first_line.startswith(marker): first_line = first_line[len(marker):].strip()
RECURSIVE StripMarkers(_, _)
StripMarkers(first_line, i) ==
    IF i > Len(Markers) THEN first_line
    ELSE IF StartsWith(first_line, Markers[i])
         THEN StripMarkers(Strip(DropFirst(first_line, Len(Markers[i]))), i + 1)
         ELSE StripMarkers(first_line, i + 1)

ImageGenerator_extract_theme_from_post(post) ==
    LET lines == Split(Strip(post))
    IN  IF lines # <<>>
        THEN Take(StripMarkers(Strip(lines[1]), 1), ThemeLimit)
        ELSE DefaultTheme

T2IGenerator_extract_theme_from_post(post) ==
    LET lines == Split(Strip(post))
    IN  IF lines # <<>>
        THEN Take(StripMarkers(Strip(lines[1]), 1), ThemeLimit)
        ELSE DefaultTheme


(***************************************************************************)
(* Retry policy and fixed result strings of the generation clients        *)
(***************************************************************************)
max_retries == 3
base_delay == 2
InitialDelayMs == 500       \* time.sleep(0.5)

\* a backoff that grows linearly
Delay_Linear(attempt) ==
    IF attempt > 0 THEN base_delay * attempt * 1000 ELSE InitialDelayMs

\* the wait that precedes the request of iteration `attempt`, in milliseconds
Delay(attempt) ==
    IF attempt > 0 THEN base_delay * (2 ^ attempt) * 1000 ELSE InitialDelayMs

Methods ==
    { "classify_news", "generate_linkedin_post",
      "generate_linkedin_post_from_article", "generate_linkedin_post_direct",
      "ImageGenerator.generate_image", "T2IGenerator.generate_image" }

\* the names the orchestration layer calls on its ZAIClassifier to generate a post
PostEntryPoints ==
    { "generate_linkedin_post",
      "generate_linkedin_post_from_article", "generate_linkedin_post_direct" }

\* the methods class ZAIClassifier defines
ZAIClassifierMethods == { "classify_news", "generate_linkedin_post" }

RateLimitMsg == "Erro: Limite de taxa da API excedido. Tente novamente em alguns minutos."
NoArticlesMsg == "Nenhuma notícia para classificar."
NoClassificationMsg == "Nenhuma classificação disponível para gerar post."
NoPostMsg == "No post content available for image generation."
NoTokenMsg == "Erro: REPLICATE_API_TOKEN não configurado. Adicione ao arquivo .env"
UnexpectedFormatMsg == "Erro na resposta da API: formato inesperado."
UrlNotFoundMsg == "Erro na resposta da API: URL da imagem não encontrada."

ErrorPrefix(m) ==
    CASE m = "classify_news" -> "Erro ao classificar notícias: "
      [] m = "generate_linkedin_post" -> "Erro ao gerar post: "
      [] OTHER -> "Erro ao gerar imagem: "

\* the result after the retry loop has run out of iterations
FallThroughMsg(m) ==
    CASE m = "classify_news" ->
            "Erro: Não foi possível classificar após múltiplas tentativas. Tente novamente mais tarde."
      [] m = "generate_linkedin_post" ->
            "Erro: Não foi possível gerar o post após múltiplas tentativas. Tente novamente mais tarde."
      [] OTHER ->
            "Erro: Não foi possível gerar a imagem após múltiplas tentativas. Tente novamente mais tarde."

\* str(e) of the exceptions the transport raises
TransportErrorText == "ConnectionError"
JSONErrorText == "JSONDecodeError"
TypeErrorText == "TypeError"
HTTPErrorText(status) == ToString(status) \o " Error"

(***************************************************************************)
(* What the remote services can answer                                     *)
(***************************************************************************)
NoneValue == "<None>"           \* Python's None, where a string is expected
Falsy(v) == v \in {NoneValue, ""}

ErrorStatuses == {401, 500}     \* HTTP error statuses other than 429
Contents == {"content A", "content B"}
UrlA == "https://replicate.delivery/a"
UrlB == "https://replicate.delivery/b"

Response(kind, status, body, content) ==
    [kind |-> kind, status |-> status, body |-> body, content |-> content]

\* shapes of a 2xx chat-completion body
\*   valid: {"choices": [{"message": {"content": c}}]}
\*   nochoices: {}      emptychoices: {"choices": []}
\*   malformed: a non-empty choices list whose first element has no message/content
\*   invalid_json: response.json() raises requests' JSONDecodeError (a RequestException)
\*   invalid_json_legacy: response.json() raises a plain ValueError (older requests)
ChatBodies == {"nochoices", "emptychoices", "malformed", "invalid_json", "invalid_json_legacy"}

\* shapes of a 2xx prediction body, by its "output" field
\*   output_absent: {}   output_empty_list: {"output": []}   output_dict: {"output": {...}}
ImageBodies == { "output_absent", "output_empty_list", "output_dict", "invalid_json" }

\* shapes of a 2xx images/generations body, by its "data" field
\*   data_absent: {}   data_empty: {"data": []}   data_null: {"data": null}
\*   data_no_url: {"data": [{}]}
T2IBodies == { "data_absent", "data_empty", "data_null", "data_no_url", "invalid_json" }

FailureResponses ==
    { Response("transport", 0, "none", "") }
    \cup { Response("http", s, "none", "") : s \in ErrorStatuses \cup {429} }

Responses(m) ==
    FailureResponses \cup
    CASE m \in {"classify_news", "generate_linkedin_post"} ->
            { Response("http", 200, b, "") : b \in ChatBodies }
            \cup { Response("http", 200, "valid", c) : c \in Contents }
      [] m = "ImageGenerator.generate_image" ->
            { Response("http", 200, b, "") : b \in ImageBodies }
            \cup { Response("http", 200, "output_str", UrlA),       \* {"output": "<UrlA>"}
                   Response("http", 200, "output_list", UrlB) }     \* {"output": ["<UrlB>"]}
      [] OTHER ->
            { Response("http", 200, b, "") : b \in T2IBodies }
            \cup { Response("http", 200, "data_url", UrlA) }

(***************************************************************************)
(* One iteration of the retry loop, from the response to what the loop    *)
(* does next: continue, return a value, raise, or (image client) go on to *)
(* download the image                                                      *)
(***************************************************************************)
Continue == [act |-> "continue", val |-> ""]
Return(v) == [act |-> "return", val |-> v]
Raise(e) == [act |-> "raise", val |-> e]
GoDownload(url) == [act |-> "download", val |-> url]

\* requests.Response.__bool__: a response is truthy when its status is below 400
ResponseOk(status) == status < 400

\* response.raise_for_status()
RaisesForStatus(status) == status >= 400 /\ status < 600

\* a rate-limit branch without its else: it leaves the last iteration by continue
OnRateLimit_AlwaysContinue(attempt) == Continue

\* a rate-limit branch that also retries after the last iteration
OnRateLimit_OffByOne(attempt) ==
    IF attempt < max_retries THEN Continue ELSE Return(RateLimitMsg)

\* if response.status_code == 429: continue while iterations remain, else the fixed string
OnRateLimit(attempt) ==
    IF attempt < max_retries - 1 THEN Continue ELSE Return(RateLimitMsg)

\* an HTTPError handler that retries after every error status
OnHTTPError_RetryAlways(m, status) == Continue

\* an HTTPError handler that retries server errors
OnHTTPError_RetryServerErrors(m, status) ==
    IF status >= 500
    THEN Continue
    ELSE Return(ErrorPrefix(m) \o HTTPErrorText(status))

\* except requests.exceptions.HTTPError as e: if e.response and e.response.status_code == 429
OnHTTPError(m, status) ==
    IF ResponseOk(status) /\ status = 429
    THEN Continue
    ELSE Return(ErrorPrefix(m) \o HTTPErrorText(status))

\* a choices test that asks for more than one choice
HasChoices_MoreThanOne(r) == FALSE

\* "choices" in result and len(result["choices"]) > 0
HasChoices(r) == r.body \in {"valid", "malformed"}

\* result["choices"][0]["message"]["content"]
FirstChoiceContent(r) ==
    IF r.body = "valid" THEN Return(r.content) ELSE Raise("KeyError")

classify_news_attempt(attempt, r) ==
    IF r.kind = "transport" THEN Return(ErrorPrefix("classify_news") \o TransportErrorText)
    ELSE IF r.status = 429 THEN OnRateLimit(attempt)
    ELSE IF RaisesForStatus(r.status) THEN OnHTTPError("classify_news", r.status)
    ELSE IF r.body = "invalid_json"
    THEN Return(ErrorPrefix("classify_news") \o JSONErrorText)
    ELSE IF r.body = "invalid_json_legacy" THEN Raise("ValueError")
    ELSE IF HasChoices(r) THEN FirstChoiceContent(r)
    ELSE Return(UnexpectedFormatMsg)

generate_linkedin_post_attempt(attempt, r) ==
    IF r.kind = "transport" THEN Return(ErrorPrefix("generate_linkedin_post") \o TransportErrorText)
    ELSE IF r.status = 429 THEN OnRateLimit(attempt)
    ELSE IF RaisesForStatus(r.status) THEN OnHTTPError("generate_linkedin_post", r.status)
    ELSE IF r.body = "invalid_json"
    THEN Return(ErrorPrefix("generate_linkedin_post") \o JSONErrorText)
    ELSE IF r.body = "invalid_json_legacy" THEN Raise("ValueError")
    ELSE IF HasChoices(r) THEN FirstChoiceContent(r)
    ELSE Return(UnexpectedFormatMsg)

\* a result choice that reports an error when there is no local file
ChooseResult_NoFallback(local_path, image_url) ==
    IF local_path # "" THEN local_path ELSE UrlNotFoundMsg

\* return local_path if it is set, else image_url if it is set, else the fixed string
ChooseResult(local_path, image_url) ==
    IF local_path # "" THEN local_path
    ELSE IF image_url # "" THEN image_url
    ELSE UrlNotFoundMsg

\* image_url = "" unless result["output"] is a non-empty string or a non-empty list
ExtractImageUrl(r) ==
    CASE r.body = "output_str" -> r.content
      [] r.body = "output_list" -> r.content
      [] OTHER -> ""

\* an iteration that downloads and logs whatever the output field held
ImageGenerator_generate_image_attempt_AlwaysSaves(attempt, r) ==
    IF r.kind = "transport"
    THEN Return(ErrorPrefix("ImageGenerator.generate_image") \o TransportErrorText)
    ELSE IF r.status = 429 THEN OnRateLimit(attempt)
    ELSE IF RaisesForStatus(r.status)
    THEN OnHTTPError("ImageGenerator.generate_image", r.status)
    ELSE IF r.body = "invalid_json"
    THEN Return(ErrorPrefix("ImageGenerator.generate_image") \o JSONErrorText)
    ELSE GoDownload(ExtractImageUrl(r))

ImageGenerator_generate_image_attempt(attempt, r) ==
    IF r.kind = "transport"
    THEN Return(ErrorPrefix("ImageGenerator.generate_image") \o TransportErrorText)
    ELSE IF r.status = 429 THEN OnRateLimit(attempt)
    ELSE IF RaisesForStatus(r.status)
    THEN OnHTTPError("ImageGenerator.generate_image", r.status)
    ELSE IF r.body = "invalid_json"
    THEN Return(ErrorPrefix("ImageGenerator.generate_image") \o JSONErrorText)
    ELSE IF ExtractImageUrl(r) # ""
    THEN GoDownload(ExtractImageUrl(r))
    ELSE Return(ChooseResult("", ExtractImageUrl(r)))

T2IGenerator_generate_image_attempt(attempt, r) ==
    IF r.kind = "transport"
    THEN Return(ErrorPrefix("T2IGenerator.generate_image") \o TransportErrorText)
    ELSE IF r.status = 429 THEN OnRateLimit(attempt)
    ELSE IF RaisesForStatus(r.status)
    THEN OnHTTPError("T2IGenerator.generate_image", r.status)
    ELSE CASE r.body = "invalid_json" ->
                 Return(ErrorPrefix("T2IGenerator.generate_image") \o JSONErrorText)
           [] r.body = "data_null" ->
                 Return(ErrorPrefix("T2IGenerator.generate_image") \o TypeErrorText)
           [] r.body = "data_url" -> Return(r.content)
           [] r.body = "data_no_url" -> Return("")
           [] OTHER -> Return(UrlNotFoundMsg)

Attempt(m, attempt, r) ==
    CASE m = "classify_news" -> classify_news_attempt(attempt, r)
      [] m = "generate_linkedin_post" -> generate_linkedin_post_attempt(attempt, r)
      [] m = "ImageGenerator.generate_image" -> ImageGenerator_generate_image_attempt(attempt, r)
      [] OTHER -> T2IGenerator_generate_image_attempt(attempt, r)

(***************************************************************************)
(* The part of a call that runs before the retry loop                      *)
(***************************************************************************)
EnterLoop == [act |-> "loop", val |-> ""]

\* an entry that builds the prompt and enters the loop for the empty list too
classify_news_entry_NoEmptyCheck(articles) ==
    IF \E i \in 1..Len(articles) : articles[i].source = "null"
    THEN Raise("AttributeError")
    ELSE EnterLoop

\* article.get('source', {}).get('name', 'N/A') fails on an article whose source is null
classify_news_entry(articles) ==
    IF articles = <<>> THEN Return(NoArticlesMsg)
    ELSE IF \E i \in 1..Len(articles) : articles[i].source = "null"
         THEN Raise("AttributeError")
         ELSE EnterLoop

generate_linkedin_post_entry(classification_text) ==
    IF classification_text = <<>> THEN Return(NoClassificationMsg) ELSE EnterLoop

\* an entry that does not look at the token
ImageGenerator_generate_image_entry_NoTokenCheck(post, token) ==
    IF post = <<>> THEN Return(NoPostMsg) ELSE EnterLoop

ImageGenerator_generate_image_entry(post, token) ==
    IF post = <<>> THEN Return(NoPostMsg)
    ELSE IF Falsy(token) THEN Return(NoTokenMsg)
    ELSE EnterLoop

T2IGenerator_generate_image_entry(post) ==
    IF post = <<>> THEN Return(NoPostMsg) ELSE EnterLoop

\* self.classifier.<name>(...) for a name the class does not define: the attribute
\* lookup fails before anything is called
ZAIClassifier_getattr(m) ==
    IF m \in ZAIClassifierMethods THEN EnterLoop ELSE Raise("AttributeError")

Entry(m, a, token) ==
    CASE m = "classify_news" -> classify_news_entry(a)
      [] m = "generate_linkedin_post" -> generate_linkedin_post_entry(a)
      [] m \in PostEntryPoints -> ZAIClassifier_getattr(m)
      [] m = "ImageGenerator.generate_image" -> ImageGenerator_generate_image_entry(a, token)
      [] OTHER -> T2IGenerator_generate_image_entry(a)

\* the first 47 characters of ImageGenerator's prompt template, up to the theme
ImagePromptHead ==
    <<"E","d","i","t","o","r","i","a","l","-","s","t","y","l","e"," ",
      "c","o","n","c","e","p","t","u","a","l"," ","i","m","a","g","e"," ",
      "r","e","p","r","e","s","e","n","t","i","n","g",":"," ">>

\* the 53 characters of the template that follow the theme (all that prompt[:100] can show)
ImagePromptTail ==
    <<".","\n","\n"," "," "," "," "," "," "," "," "," "," "," "," ","N","o"," ","t","e","x","t",".",
      "\n"," "," "," "," "," "," "," "," "," "," "," "," ","N","o"," ","l","o","g","o","s",".",
      "\n"," "," "," "," "," "," "," ">>

HistoryPromptLimit == 100

\* the prompt built from the post's theme, as far as prompt[:100] can show it
ImagePrompt(post) ==
    ImagePromptHead \o ImageGenerator_extract_theme_from_post(post) \o ImagePromptTail

(***************************************************************************)
(* Inputs                                                                  *)
(***************************************************************************)
\* an article is modelled by its "source" field: a dict, or null
ArticleLists ==
    { <<>>,
      << [source |-> "dict"] >>,
      << [source |-> "dict"], [source |-> "null"] >> }

Texts == { <<>>, <<"t">> }

Posts == { <<>>, <<"#", " ", "a">> }

\* the selected article handed to generate_linkedin_post_from_article: none, or one
SelectedArticles == { <<>>, << [source |-> "dict"] >> }

Args(m) ==
    CASE m = "classify_news" -> ArticleLists
      [] m = "generate_linkedin_post" -> Texts
      [] m = "generate_linkedin_post_from_article" -> SelectedArticles
      [] m = "generate_linkedin_post_direct" -> Texts
      [] OTHER -> Posts

ApiTokens == { NoneValue, "r8_token" }

(***************************************************************************)
(* NewsAPIClient: search and search_multiple                               *)
(***************************************************************************)
MODE_EVERYTHING == "everything"
MODE_SOURCES == "sources"
Modes == {MODE_EVERYTHING, MODE_SOURCES}

DefaultPageSize == 10

\* the GET request of one search: the endpoint and the query parameter
SearchRequest(query, mode) ==
    [ url |-> mode,
      param |-> IF mode = MODE_SOURCES THEN "category" ELSE "q",
      value |-> query,
      pageSize |-> DefaultPageSize ]

\* a 2xx body of the search endpoint
\*   json_object: a JSON object (.content stands for its "articles")
\*   json_array: valid JSON that is not an object, such as []
\*   invalid_json, invalid_json_legacy: as for the chat clients
SearchBodies == {"json_array", "invalid_json", "invalid_json_legacy"}

SearchResponses ==
    FailureResponses
    \cup { Response("http", 200, b, "") : b \in SearchBodies }
    \cup { Response("http", 200, "json_object", "articles A") }

\* {"error": str(e), "query": query, "mode": mode, "status": "failed"}
FailedOutcome(error, query, mode) ==
    [ status |-> "failed", error |-> error, articles |-> "", query |-> query, mode |-> mode ]

\* the response body with result["query"] and result["mode"] set
FoundOutcome(articles, query, mode) ==
    [ status |-> "ok", error |-> "", articles |-> articles, query |-> query, mode |-> mode ]

\* a search that lets the HTTP error of raise_for_status reach the caller
NewsAPIClient_search_RaisesOnError(query, mode, r) ==
    IF r.kind = "transport" THEN Return(FailedOutcome(TransportErrorText, query, mode))
    ELSE IF RaisesForStatus(r.status) THEN Raise("HTTPError")
    ELSE CASE r.body = "invalid_json" -> Return(FailedOutcome(JSONErrorText, query, mode))
           [] r.body = "invalid_json_legacy" -> Raise("ValueError")
           [] r.body = "json_array" -> Raise("TypeError")
           [] OTHER -> Return(FoundOutcome(r.content, query, mode))

\* search: one requests.get answered by r; only RequestException is caught
NewsAPIClient_search(query, mode, r) ==
    IF r.kind = "transport" THEN Return(FailedOutcome(TransportErrorText, query, mode))
    ELSE IF RaisesForStatus(r.status)
    THEN Return(FailedOutcome(HTTPErrorText(r.status), query, mode))
    ELSE CASE r.body = "invalid_json" -> Return(FailedOutcome(JSONErrorText, query, mode))
           [] r.body = "invalid_json_legacy" -> Raise("ValueError")
           [] r.body = "json_array" -> Raise("TypeError")
           [] OTHER -> Return(FoundOutcome(r.content, query, mode))

\* a loop body that tests the term as given, without trimming it
SearchTerm_NoStrip(query) == [ searched |-> query # <<>>, query |-> query ]

\* query = query.strip(); if query: ...
SearchTerm(query) == [ searched |-> Strip(query) # <<>>, query |-> Strip(query) ]

Terms == { <<>>, <<" ">>, <<"a">>, <<" ", "b">>, <<"b", " ">> }

RECURSIVE TermLists(_)
TermLists(n) ==
    IF n = 0 THEN { <<>> }
    ELSE LET shorter == TermLists(n - 1)
         IN  shorter \cup { Append(l, q) : l \in shorter, q \in Terms }

IdleSearch ==
    [ pc |-> "idle", queries |-> <<>>, mode |-> MODE_EVERYTHING,
      i |-> 0,              \* position of the loop in queries
      results |-> <<>>,     \* the list being built, and returned
      requests |-> <<>>,    \* the GET requests issued so far
      resps |-> <<>>,       \* the responses received so far
      exc |-> "" ]

(***************************************************************************)
(* Config, and the widgets NewsAPIGUI builds from gui_components          *)
(***************************************************************************)
NewsApiKeys == { NoneValue, "", "news_key" }

MissingKeyMsg == "NEWS_API_KEY is not set in environment variables"

\* a validation that also requires the image-generation token
Config_validate_RequiresToken(key, token) ==
    IF Falsy(key) \/ Falsy(token) THEN Raise(MissingKeyMsg) ELSE Return("True")

\* Config.validate: raises ValueError when NEWS_API_KEY is None or empty
Config_validate(key, token) ==
    IF Falsy(key) THEN Raise(MissingKeyMsg) ELSE Return("True")

\* ttk's -state option: 'disabled' sets the disabled bit, any other string clears it
\* (so a button configured with state='hidden' stays on screen and accepts clicks)
Clickable(state) == state # "disabled"

OperationClasses == {"search", "classification", "post", "image"}

\* InputComponent._build and ResultsComponent.__init__/_build
InitialView ==
    [ search_entry |-> "",
      status_label |-> "Ready",
      results_text |-> "",          \* the text area: empty, or "text" when it shows something
      search_button |-> "normal",
      classify_button |-> "disabled",
      classify_packed |-> TRUE,
      abort_button |-> "hidden",
      generate_post_button |-> "hidden",
      generate_image_button |-> "hidden",
      show_modal_button |-> "hidden",
      current_articles |-> <<>>,
      current_classification |-> "",
      current_post |-> "",
      current_image_url |-> "",
      current_local_image_path |-> "" ]

\* the application before NewsAPIGUI.__init__ has run
AppNotStarted ==
    /\ app = [pc |-> "start", api_connected |-> FALSE, api_error |-> NoneValue]
    /\ view = InitialView
    /\ workers = [c \in OperationClasses |-> <<>>]
    /\ after_queue = <<>>
    /\ timers = <<>>
    /\ dispatched = [c \in OperationClasses |-> 0]

\* InputComponent.clear
InputComponent_clear(v) == [v EXCEPT !.search_entry = ""]

\* ResultsComponent.clear
ResultsComponent_clear(v) == [v EXCEPT !.results_text = ""]

\* ResultsComponent.append_text
append_text(v, kind) == [v EXCEPT !.results_text = "text"]

\* InputComponent.set_status (status texts are written without their leading mark)
set_status(v, text) == [v EXCEPT !.status_label = text]

\* ResultsComponent.reset_to_search_state
reset_to_search_state(v) ==
    [v EXCEPT !.abort_button = "hidden",
              !.generate_post_button = "hidden",
              !.generate_image_button = "hidden",
              !.show_modal_button = "hidden",
              !.classify_packed = TRUE,
              !.classify_button = "disabled",
              !.current_articles = <<>>,
              !.current_classification = "",
              !.current_post = "",
              !.current_image_url = "",
              !.current_local_image_path = ""]

\* the articles display_results stores: those of the "ok" outcomes, except in sources mode
ArticlesOf(results) ==
    IF \E k \in 1..Len(results) :
            /\ results[k].status = "ok"
            /\ results[k].mode # MODE_SOURCES
            /\ results[k].articles # ""
    THEN << [source |-> "dict"] >>
    ELSE <<>>

\* ResultsComponent.display_results
display_results(v, results) ==
    LET shown == [append_text(ResultsComponent_clear(v), "results")
                     EXCEPT !.current_articles = ArticlesOf(results)]
    IN  [shown EXCEPT !.classify_button =
            IF shown.current_articles # <<>> THEN "normal" ELSE "disabled"]

\* a display that sends the client's error string to the error display
display_classification_RejectsErrors(v, classification) ==
    IF classification = "Erro ao classificar notícias: 500 Error"
    THEN append_text(v, "error")
    ELSE [append_text(v, "classification")
            EXCEPT !.current_classification = classification,
                   !.classify_packed = FALSE,
                   !.abort_button = "normal",
                   !.generate_post_button = "normal"]

\* ResultsComponent.display_classification
display_classification(v, classification) ==
    [append_text(v, "classification")
        EXCEPT !.current_classification = classification,
               !.classify_packed = FALSE,
               !.abort_button = "normal",
               !.generate_post_button = "normal"]

\* an error display that also resets the results panel
display_error_Resets(v) == reset_to_search_state(append_text(v, "error"))

\* ResultsComponent.display_error
display_error(v) == append_text(v, "error")

\* ResultsComponent.display_generated_post
display_generated_post(v, post) ==
    [append_text(v, "post") EXCEPT !.current_post = post,
                                   !.generate_image_button = "normal"]

\* ResultsComponent.display_generated_image
display_generated_image(v, image_url, local_image_path) ==
    [append_text(v, "image") EXCEPT !.current_image_url = image_url,
                                    !.current_local_image_path = local_image_path,
                                    !.show_modal_button = "normal"]

(***************************************************************************)
(* Worker threads running client calls                                     *)
(***************************************************************************)
Threads == {"worker"}

IdleCall ==
    [ pc |-> "idle", method |-> "none", arg |-> <<>>,
      attempt |-> 0,        \* the loop variable
      requests |-> 0,       \* POST requests issued by this call
      downloads |-> 0,      \* GET requests issued by this call
      waits |-> <<>>,       \* the time.sleep delays of this call, in milliseconds
      resps |-> <<>>,       \* the responses this call received
      image_url |-> "", local_path |-> "",
      appends |-> 0,        \* records this call added to the history log
      downloaded |-> "none",    \* how this call's image download ended
      logged |-> "none",    \* how this call's history write ended
      ret |-> "", exc |-> "" ]

Init ==
    /\ api_token \in ApiTokens
    /\ call = [t \in Threads |-> IdleCall]
    /\ history = <<>>
    /\ images = [p \in {} |-> {}]
    /\ clock = 0
    /\ generations = 0
    /\ searching = IdleSearch
    /\ NEWS_API_KEY = "news_key"
    /\ AppNotStarted
    /\ tpost = <<>>
    /\ ttheme = <<>>
    /\ tgen = "none"

\* a thread enters a client method with argument a
Call(t, m, a) ==
    /\ call[t].pc = "idle"
    /\ LET o == Entry(m, a, api_token)
           generating == m = "ImageGenerator.generate_image" /\ o.act = "loop"
       IN  /\ generating => generations < MaxGenerations
           /\ generations' = IF generating THEN generations + 1 ELSE generations
           /\ call' = [call EXCEPT ![t] =
                [IdleCall EXCEPT
                    !.method = m,
                    !.arg = a,
                    !.pc = CASE o.act = "loop" -> "sleep"
                             [] o.act = "return" -> "returned"
                             [] OTHER -> "raised",
                    !.ret = IF o.act = "return" THEN o.val ELSE "",
                    !.exc = IF o.act = "raise" THEN o.val ELSE ""]]
    /\ UNCHANGED <<api_token, history, images, clock, tvars, svars, gvars>>

\* time.sleep(...) at the top of an iteration
Sleep(t) ==
    /\ call[t].pc = "sleep"
    /\ call' = [call EXCEPT ![t].waits = Append(@, Delay(call[t].attempt)),
                            ![t].pc = "request"]
    /\ UNCHANGED <<api_token, history, images, clock, generations, tvars, svars, gvars>>

\* requests.post(...) answered by r, and the rest of the iteration
Post(t) ==
    /\ call[t].pc = "request"
    /\ \E r \in Responses(call[t].method) :
       LET c == call[t]
           o == Attempt(c.method, c.attempt, r)
           sent == [c EXCEPT !.requests = @ + 1, !.resps = Append(@, r)]
       IN  call' = [call EXCEPT ![t] =
                CASE o.act = "continue" ->
                        IF c.attempt + 1 < max_retries
                        THEN [sent EXCEPT !.attempt = @ + 1, !.pc = "sleep"]
                        ELSE [sent EXCEPT !.pc = "returned",
                                          !.ret = FallThroughMsg(c.method)]
                  [] o.act = "return" -> [sent EXCEPT !.pc = "returned", !.ret = o.val]
                  [] o.act = "raise" -> [sent EXCEPT !.pc = "raised", !.exc = o.val]
                  [] OTHER -> [sent EXCEPT !.pc = "download", !.image_url = o.val]]
    /\ UNCHANGED <<api_token, history, images, clock, generations, tvars, svars, gvars>>

(***************************************************************************)
(* Image download and provenance log                                       *)
(***************************************************************************)
images_dir == "images"
os_sep == "/"

\* os.path.join(images_dir, f"image_{timestamp}.webp"), timestamp to the second
LocalPath(now) == images_dir \o os_sep \o "image_" \o ToString(now) \o ".webp"

\* open(path, 'wb') creates or truncates the file; f holds what reached the disk
WriteFile(files, path, f) ==
    [p \in DOMAIN files \cup {path} |-> IF p = path THEN f ELSE files[p]]

DownloadOutcomes == {"get_failed", "open_failed", "write_failed", "ok"}

\* a download that hands back the path of the file it opened even when the write failed
ImageGenerator_download_image_PathOnFailure(image_url, d, now, files) ==
    CASE d = "ok" ->
            [ local_path |-> LocalPath(now),
              files |-> WriteFile(files, LocalPath(now),
                                  [content |-> image_url, complete |-> TRUE]) ]
      [] d = "write_failed" ->
            [ local_path |-> LocalPath(now),
              files |-> WriteFile(files, LocalPath(now),
                                  [content |-> image_url, complete |-> FALSE]) ]
      [] OTHER -> [ local_path |-> "", files |-> files ]

\* _download_image: the local path it returns and the images directory afterwards
ImageGenerator_download_image(image_url, d, now, files) ==
    CASE d = "ok" ->
            [ local_path |-> LocalPath(now),
              files |-> WriteFile(files, LocalPath(now),
                                  [content |-> image_url, complete |-> TRUE]) ]
      [] d = "write_failed" ->
            [ local_path |-> "",
              files |-> WriteFile(files, LocalPath(now),
                                  [content |-> image_url, complete |-> FALSE]) ]
      [] OTHER -> [ local_path |-> "", files |-> files ]

HistoryOutcomes == {"failed", "ok"}

\* f"[{timestamp}] URL: {image_url}\nLocal: {local_path}\nPrompt: {prompt[:100]}...\n..."
HistoryEntry(image_url, prompt, local_path, now) ==
    [ timestamp |-> now, url |-> image_url, local |-> local_path, prompt |-> prompt ]

\* a history writer called without the local path (its parameter defaults to "")
ImageGenerator_save_to_history_NoLocal(log, image_url, prompt, local_path, now, h) ==
    IF h = "ok"
    THEN Append(log, HistoryEntry(image_url, Take(prompt, HistoryPromptLimit), "", now))
    ELSE log

\* a history writer that opens the log with mode 'w'
ImageGenerator_save_to_history_Truncating(log, image_url, prompt, local_path, now, h) ==
    IF h = "ok"
    THEN << HistoryEntry(image_url, Take(prompt, HistoryPromptLimit), local_path, now) >>
    ELSE log

\* _save_to_history: the log afterwards; an exception of open or write is swallowed
\* and leaves no record
ImageGenerator_save_to_history(log, image_url, prompt, local_path, now, h) ==
    IF h = "ok"
    THEN Append(log, HistoryEntry(image_url, Take(prompt, HistoryPromptLimit), local_path, now))
    ELSE log

\* local_path = self._download_image(image_url)
Download(t, d) ==
    /\ call[t].pc = "download"
    /\ LET c == call[t]
           o == ImageGenerator_download_image(c.image_url, d, clock, images)
       IN  /\ images' = o.files
           /\ call' = [call EXCEPT ![t].downloads = @ + 1,
                                   ![t].local_path = o.local_path,
                                   ![t].downloaded = d,
                                   ![t].pc = "history"]
    /\ UNCHANGED <<api_token, history, clock, generations, tvars, svars, gvars>>

\* self._save_to_history(image_url, prompt, local_path), then the return statement
SaveHistory(t, h) ==
    /\ call[t].pc = "history"
    /\ LET c == call[t]
       IN  /\ history' = ImageGenerator_save_to_history(
                            history, c.image_url, ImagePrompt(c.arg), c.local_path, clock, h)
           /\ call' = [call EXCEPT ![t].appends = @ + (Len(history') - Len(history)),
                                   ![t].logged = h,
                                   ![t].ret = ChooseResult(c.local_path, c.image_url),
                                   ![t].pc = "returned"]
    /\ UNCHANGED <<api_token, images, clock, generations, tvars, svars, gvars>>

\* the caller has taken the result (or the exception); the thread is free again
Finish(t) ==
    /\ call[t].pc \in {"returned", "raised"}
    /\ call' = [call EXCEPT ![t] = IdleCall]
    /\ UNCHANGED <<api_token, history, images, clock, generations, tvars, svars, gvars>>

Tick ==
    /\ clock < MaxTime
    /\ clock' = clock + 1
    /\ UNCHANGED <<api_token, call, history, images, generations, tvars, svars, gvars>>

Next ==
    \/ \E t \in Threads, m \in Methods : \E a \in Args(m) : Call(t, m, a)
    \/ \E t \in Threads : Sleep(t)
    \/ \E t \in Threads : Post(t)
    \/ \E t \in Threads, d \in DownloadOutcomes : Download(t, d)
    \/ \E t \in Threads, h \in HistoryOutcomes : SaveHistory(t, h)
    \/ \E t \in Threads : Finish(t)
    \/ Tick

Spec == Init /\ [][Next]_vars

\* a thread inside a client call keeps running: time.sleep returns, every request is
\* answered or times out (timeout=...), the file and log writes return
Fairness ==
    \A t \in Threads :
        /\ WF_vars(Sleep(t))
        /\ WF_vars(Post(t))
        /\ WF_vars(\E d \in DownloadOutcomes : Download(t, d))
        /\ WF_vars(\E h \in HistoryOutcomes : SaveHistory(t, h))

\* the steps of the client calls alone; the wall clock, which no loop condition
\* reads, stands still
CallNext ==
    \/ \E t \in Threads, m \in Methods : \E a \in Args(m) : Call(t, m, a)
    \/ \E t \in Threads : Sleep(t)
    \/ \E t \in Threads : Post(t)
    \/ \E t \in Threads, d \in DownloadOutcomes : Download(t, d)
    \/ \E t \in Threads, h \in HistoryOutcomes : SaveHistory(t, h)
    \/ \E t \in Threads : Finish(t)

FairSpec == Init /\ [][CallNext]_vars /\ Fairness

(***************************************************************************)
(* Posts of the theme specification: concatenations of a few pieces       *)
(***************************************************************************)
LongRun == [i \in 1..LongLen |-> "x"]

Pieces ==
    { <<"#">>, <<"*", "*">>, Markers[3], Markers[4],
      <<" ">>, <<"\n">>, <<"a">>, LongRun }

RECURSIVE PostsOf(_)
PostsOf(n) ==
    IF n = 0 THEN { <<>> }
    ELSE LET shorter == PostsOf(n - 1)
         IN  shorter \cup { p \o q : p \in shorter, q \in Pieces }

ThemePosts == PostsOf(MaxPieces)

ThemeInit ==
    /\ tpost \in ThemePosts
    /\ ttheme = <<>>
    /\ tgen = "none"
    /\ api_token = NoneValue
    /\ call = [t \in Threads |-> IdleCall]
    /\ history = <<>>
    /\ images = [p \in {} |-> {}]
    /\ clock = 0
    /\ generations = 0
    /\ searching = IdleSearch
    /\ NEWS_API_KEY = "news_key"
    /\ AppNotStarted

ImageExtractTheme ==
    /\ tgen = "none"
    /\ ttheme' = ImageGenerator_extract_theme_from_post(tpost)
    /\ tgen' = "image"
    /\ UNCHANGED <<tpost, cvars, svars, gvars>>

T2IExtractTheme ==
    /\ tgen = "none"
    /\ ttheme' = T2IGenerator_extract_theme_from_post(tpost)
    /\ tgen' = "t2i"
    /\ UNCHANGED <<tpost, cvars, svars, gvars>>

ThemeNext == ImageExtractTheme \/ T2IExtractTheme

ThemeSpec == ThemeInit /\ [][ThemeNext]_vars

(***************************************************************************)
(* The search client, one search_multiple call at a time                  *)
(***************************************************************************)
\* results = []
SearchMultiple(queries, mode) ==
    /\ searching.pc = "idle"
    /\ searching' = [IdleSearch EXCEPT !.pc = "loop", !.queries = queries,
                                       !.mode = mode, !.i = 1]
    /\ UNCHANGED <<cvars, tvars, gvars>>

\* one iteration of `for query in queries`, its call of search included
SearchIterate ==
    /\ searching.pc = "loop"
    /\ searching.i <= Len(searching.queries)
    /\ LET s == searching
           term == SearchTerm(s.queries[s.i])
       IN  IF ~term.searched
           THEN searching' = [s EXCEPT !.i = @ + 1]
           ELSE \E r \in SearchResponses :
                LET o == NewsAPIClient_search(term.query, s.mode, r)
                    sent == [s EXCEPT !.requests = Append(@, SearchRequest(term.query, s.mode)),
                                      !.resps = Append(@, r)]
                IN  searching' =
                        IF o.act = "return"
                        THEN [sent EXCEPT !.results = Append(@, o.val), !.i = @ + 1]
                        ELSE [sent EXCEPT !.pc = "raised", !.exc = o.val]
    /\ UNCHANGED <<cvars, tvars, gvars>>

\* return results
SearchReturn ==
    /\ searching.pc = "loop"
    /\ searching.i > Len(searching.queries)
    /\ searching' = [searching EXCEPT !.pc = "returned"]
    /\ UNCHANGED <<cvars, tvars, gvars>>

\* the caller has taken the list (or the exception)
SearchFinish ==
    /\ searching.pc \in {"returned", "raised"}
    /\ searching' = IdleSearch
    /\ UNCHANGED <<cvars, tvars, gvars>>

SearchNext ==
    \/ \E queries \in TermLists(MaxTerms), mode \in Modes : SearchMultiple(queries, mode)
    \/ SearchIterate
    \/ SearchReturn
    \/ SearchFinish

SearchSpec == Init /\ [][SearchNext]_vars

(***************************************************************************)
(* The application: UI-thread handlers, worker threads, scheduled         *)
(* callbacks.  A handler or a callback runs to completion on the UI       *)
(* thread; a worker runs its client call and then schedules callbacks.    *)
(* The handlers are those reachable from the widgets gui_components       *)
(* builds.                                                                 *)
(***************************************************************************)
GuiInit ==
    /\ api_token \in ApiTokens
    /\ NEWS_API_KEY \in NewsApiKeys
    /\ AppNotStarted
    /\ call = [t \in Threads |-> IdleCall]
    /\ history = <<>>
    /\ images = [p \in {} |-> {}]
    /\ clock = 0
    /\ generations = 0
    /\ tpost = <<>>
    /\ ttheme = <<>>
    /\ tgen = "none"
    /\ searching = IdleSearch

\* NewsAPIGUI.__init__: _init_client, ZAIClassifier(), ImageGenerator(), _show_api_status
Construct ==
    /\ app.pc = "start"
    /\ LET o == Config_validate(NEWS_API_KEY, api_token)
           connected == o.act = "return"
       IN  /\ app' = [pc |-> "running", api_connected |-> connected,
                      api_error |-> IF connected THEN NoneValue ELSE o.val]
           /\ view' = set_status(view, IF connected THEN "API Connected"
                                       ELSE "API Error: Check .env file")
    /\ UNCHANGED <<NEWS_API_KEY, workers, after_queue, timers, dispatched,
                   cvars, tvars, svars>>

Task(op, arg) == [op |-> op, arg |-> arg, pc |-> "started", url |-> ""]

\* Thread(target=..., args=...).start()
StartThread(op, arg) ==
    /\ dispatched[op] < MaxTasks
    /\ dispatched' = [dispatched EXCEPT ![op] = @ + 1]
    /\ workers' = [workers EXCEPT ![op] = Append(@, Task(op, arg))]

\* the user types search terms into the entry
TypeTerms ==
    /\ app.pc = "running"
    /\ view.search_entry = ""
    /\ view' = [view EXCEPT !.search_entry = "a"]
    /\ UNCHANGED <<NEWS_API_KEY, app, workers, after_queue, timers, dispatched,
                   cvars, tvars, svars>>

\* InputComponent.get_search_terms
get_search_terms(entry) == IF entry = "" THEN <<>> ELSE << <<"a">> >>

\* on_search, from the search button (command=) or from <Return> in the entry (bind)
on_search(via) ==
    /\ app.pc = "running"
    /\ via = "button" => Clickable(view.search_button)
    /\ get_search_terms(view.search_entry) # <<>>
    /\ view' = ResultsComponent_clear(
                    set_status([view EXCEPT !.search_button = "disabled"], "Searching..."))
    /\ StartThread("search", get_search_terms(view.search_entry))
    /\ UNCHANGED <<NEWS_API_KEY, app, after_queue, timers, cvars, tvars, svars>>

\* on_clear (the Clear button is never disabled)
on_clear ==
    /\ app.pc = "running"
    /\ view' = set_status(
                    reset_to_search_state(ResultsComponent_clear(InputComponent_clear(view))),
                    "Ready")
    /\ view' # view
    /\ UNCHANGED <<NEWS_API_KEY, app, workers, after_queue, timers, dispatched,
                   cvars, tvars, svars>>

\* an abort that also drops the running tasks and their scheduled callbacks
on_abort_Cancels ==
    /\ app.pc = "running"
    /\ Clickable(view.abort_button)
    /\ view' = set_status(
                    reset_to_search_state(ResultsComponent_clear(InputComponent_clear(view))),
                    "Ready")
    /\ workers' = [c \in OperationClasses |-> <<>>]
    /\ after_queue' = <<>>
    /\ timers' = <<>>
    /\ <<view, workers, after_queue, timers>>' # <<view, workers, after_queue, timers>>
    /\ UNCHANGED <<NEWS_API_KEY, app, dispatched, cvars, tvars, svars>>

\* _on_abort and on_abort
on_abort ==
    /\ app.pc = "running"
    /\ Clickable(view.abort_button)
    /\ view' = set_status(
                    reset_to_search_state(ResultsComponent_clear(InputComponent_clear(view))),
                    "Ready")
    /\ view' # view
    /\ UNCHANGED <<NEWS_API_KEY, app, workers, after_queue, timers, dispatched,
                   cvars, tvars, svars>>

\* _on_classify and on_classify
on_classify ==
    /\ app.pc = "running"
    /\ view.classify_packed
    /\ Clickable(view.classify_button)
    /\ view.current_articles # <<>>
    /\ view' = set_status([view EXCEPT !.classify_button = "disabled"],
                          "Classifying with GLM...")
    /\ StartThread("classification", view.current_articles)
    /\ UNCHANGED <<NEWS_API_KEY, app, after_queue, timers, cvars, tvars, svars>>

\* _on_generate_post and on_generate_post
on_generate_post ==
    /\ app.pc = "running"
    /\ Clickable(view.generate_post_button)
    /\ view.current_classification # ""
    /\ view' = set_status([view EXCEPT !.generate_post_button = "disabled",
                                       !.abort_button = "disabled"],
                          "Generating LinkedIn post...")
    /\ StartThread("post", view.current_classification)
    /\ UNCHANGED <<NEWS_API_KEY, app, after_queue, timers, cvars, tvars, svars>>

\* _on_generate_image and on_generate_image
on_generate_image ==
    /\ app.pc = "running"
    /\ Clickable(view.generate_image_button)
    /\ view.current_post # ""
    /\ view' = set_status([view EXCEPT !.generate_image_button = "disabled",
                                       !.abort_button = "disabled"],
                          "Generating image...")
    /\ StartThread("image", view.current_post)
    /\ UNCHANGED <<NEWS_API_KEY, app, after_queue, timers, cvars, tvars, svars>>

\* a sequence without its i-th element
Remove(seq, i) == SubSeq(seq, 1, i - 1) \o SubSeq(seq, i + 1, Len(seq))

Callback(kind, val, bound) == [kind |-> kind, val |-> val, bound |-> bound]

\* the remote answers a background task may meet
\* (the mode selected in the combobox, the answer to the search request)
GuiSearches ==
    { <<MODE_EVERYTHING, Response("http", 200, "json_object", "articles A")>>,
      <<MODE_SOURCES, Response("http", 200, "json_object", "articles A")>>,
      <<MODE_EVERYTHING, Response("http", 500, "none", "")>> }

\* classification: a result, an error string that is returned, an exception
GuiChatResponses ==
    { Response("http", 200, "valid", "content A"),
      Response("http", 500, "none", ""),
      Response("http", 200, "malformed", "") }

\* post generation: a result, an error string that is returned
GuiPostResponses ==
    { Response("http", 200, "valid", "content A"),
      Response("http", 500, "none", "") }

\* image generation: an image URL (without a token the call returns its message)
GuiImageResponses ==
    { Response("http", 200, "output_str", UrlA) }

\* the characters of a stored text; every non-empty text is read as the post "# a"
Chars(text) == IF text = "" THEN <<>> ELSE <<"#", " ", "a">>

\* how a client call made by a worker ends: Return(value) or Raise(exception), or for
\* the image client GoDownload(url) when a URL was obtained
\*   search: self.client exists only when NewsAPIClient() was constructed
WorkerOutcomes(task) ==
    CASE task.op = "search" ->
            IF ~app.api_connected THEN { Raise("AttributeError") }
            ELSE { LET o == NewsAPIClient_search(task.arg[1], g[1], g[2])
                   IN  IF o.act = "return" THEN Return(<<o.val>>) ELSE o :
                       g \in GuiSearches }
      [] task.op = "classification" ->
            LET o == classify_news_entry(task.arg)
            IN  IF o.act # "loop" THEN {o}
                ELSE { Attempt("classify_news", max_retries - 1, r) : r \in GuiChatResponses }
      [] task.op = "post" ->
            LET o == generate_linkedin_post_entry(Chars(task.arg))
            IN  IF o.act # "loop" THEN {o}
                ELSE { Attempt("generate_linkedin_post", max_retries - 1, r) :
                            r \in GuiPostResponses }
      [] OTHER ->
            LET o == ImageGenerator_generate_image_entry(Chars(task.arg), api_token)
            IN  IF o.act # "loop" THEN {o}
                ELSE { Attempt("ImageGenerator.generate_image", max_retries - 1, r) :
                            r \in GuiImageResponses }

SuccessCallback(op) ==
    CASE op = "search" -> "_display_results"
      [] op = "classification" -> "_display_classification"
      [] op = "post" -> "_display_generated_post"
      [] OTHER -> "_display_generated_image"

ErrorCallback(op) ==
    CASE op = "search" -> "_display_error"
      [] op = "classification" -> "_display_classification_error"
      [] op = "post" -> "_display_post_generation_error"
      [] OTHER -> "_display_image_generation_error"

\* result.startswith("images/") or result.startswith("images\\")
IsLocalPath(result) == result \in { LocalPath(now) : now \in 0..(MaxTime + 1) }

\* result and result.startswith("images\\"), the test of enable_modal_button on the
\* result its closure holds
StartsWithImagesBackslash(result) == os_sep = "\\" /\ IsLocalPath(result)

\* what _perform_image_generation schedules with a delay after a result; the callback
\* is kept with the outcome of its test on result
DelayedCallbacks(op, result) ==
    IF op = "image"
    THEN << Callback("enable_modal_button",
                     IF StartsWithImagesBackslash(result) THEN "enable" ELSE "", TRUE) >>
    ELSE <<>>

\* a worker runs its client call and schedules the callbacks, all but the saving of an
\* obtained image.  In `except Exception as e: root.after(0, lambda: ...str(e))` the
\* name e is unbound when the except block ends, which races with the UI thread
\* running the lambda: bound says whether the lambda still finds e.
WorkerRun(op, i) ==
    /\ i \in 1..Len(workers[op])
    /\ workers[op][i].pc = "started"
    /\ \E o \in WorkerOutcomes(workers[op][i]) :
        CASE o.act = "return" ->
                /\ workers' = [workers EXCEPT ![op] = Remove(@, i)]
                /\ after_queue' = Append(after_queue, Callback(SuccessCallback(op), o.val, TRUE))
                /\ timers' = timers \o DelayedCallbacks(op, o.val)
          [] o.act = "raise" ->
                /\ workers' = [workers EXCEPT ![op] = Remove(@, i)]
                /\ \E bound \in BOOLEAN :
                      after_queue' = Append(after_queue, Callback(ErrorCallback(op), o.val, bound))
                /\ timers' = timers
          [] OTHER ->
                /\ workers' = [workers EXCEPT ![op][i].pc = "saving", ![op][i].url = o.val]
                /\ UNCHANGED <<after_queue, timers>>
    /\ UNCHANGED <<NEWS_API_KEY, app, view, dispatched, cvars, tvars, svars>>

\* the image worker downloads the image, appends the history record and returns
WorkerSave(i, d) ==
    /\ i \in 1..Len(workers["image"])
    /\ workers["image"][i].pc = "saving"
    /\ LET w == workers["image"][i]
           o == ImageGenerator_download_image(w.url, d, clock, images)
           result == ChooseResult(o.local_path, w.url)
       IN  /\ images' = o.files
           /\ history' = ImageGenerator_save_to_history(
                            history, w.url, ImagePrompt(Chars(w.arg)), o.local_path, clock, "ok")
           /\ workers' = [workers EXCEPT !["image"] = Remove(@, i)]
           /\ after_queue' = Append(after_queue, Callback(SuccessCallback(w.op), result, TRUE))
           /\ timers' = timers \o DelayedCallbacks(w.op, result)
    /\ UNCHANGED <<NEWS_API_KEY, app, view, dispatched,
                   api_token, call, clock, generations, tvars, svars>>

\* the body of a scheduled callback, on the view
RunBody(v, cb) ==
    CASE cb.kind = "_display_results" ->
            set_status([display_results(v, cb.val) EXCEPT !.search_button = "normal"],
                       "Found 1 result(s)")
      [] cb.kind = "_display_error" ->
            set_status([display_error(v) EXCEPT !.search_button = "normal"],
                       "Error occurred")
      [] cb.kind = "_display_classification" ->
            set_status([display_classification(v, cb.val) EXCEPT !.classify_button = "normal"],
                       "Classification complete")
      [] cb.kind = "_display_classification_error" ->
            set_status([display_error(v) EXCEPT !.classify_button = "normal"],
                       "Classification error")
      [] cb.kind = "_display_generated_post" ->
            set_status([display_generated_post(v, cb.val) EXCEPT !.abort_button = "normal"],
                       "LinkedIn post generated")
      [] cb.kind = "_display_post_generation_error" ->
            set_status([display_error(v) EXCEPT !.abort_button = "normal",
                                                !.generate_post_button = "normal"],
                       "Post generation error")
      [] cb.kind = "_display_generated_image" ->
            set_status(
                [display_generated_image(v, cb.val, IF IsLocalPath(cb.val) THEN cb.val ELSE "")
                    EXCEPT !.abort_button = "normal"],
                "Image generated")
      [] cb.kind = "_display_image_generation_error" ->
            set_status([display_error(v) EXCEPT !.abort_button = "normal",
                                                !.generate_image_button = "normal"],
                       "Image generation error")
      [] OTHER ->   \* enable_modal_button
            IF cb.val = "enable" THEN [v EXCEPT !.show_modal_button = "normal"] ELSE v

\* the UI thread runs the oldest callback scheduled with root.after(0, ...); a lambda
\* whose e is unbound raises NameError and changes nothing
RunCallback ==
    /\ after_queue # <<>>
    /\ view' = IF Head(after_queue).bound THEN RunBody(view, Head(after_queue)) ELSE view
    /\ after_queue' = Tail(after_queue)
    /\ UNCHANGED <<NEWS_API_KEY, app, workers, timers, dispatched, cvars, tvars, svars>>

\* the UI thread runs a delayed callback
RunTimer(i) ==
    /\ i \in 1..Len(timers)
    /\ view' = RunBody(view, timers[i])
    /\ timers' = Remove(timers, i)
    /\ UNCHANGED <<NEWS_API_KEY, app, workers, after_queue, dispatched, cvars, tvars, svars>>

GuiNext ==
    \/ Construct
    \/ TypeTerms
    \/ \E via \in {"button", "return"} : on_search(via)
    \/ on_abort
    \/ on_clear
    \/ on_classify
    \/ on_generate_post
    \/ on_generate_image
    \/ \E op \in OperationClasses, i \in 1..MaxTasks : WorkerRun(op, i)
    \/ \E i \in 1..MaxTasks : WorkerSave(i, "ok")
    \/ RunCallback
    \/ \E i \in 1..MaxTasks : RunTimer(i)

GuiSpec == GuiInit /\ [][GuiNext]_vars

\* worker threads run to their end and the Tk event loop runs every scheduled
\* callback; nothing obliges the user to act
GuiFairness ==
    /\ WF_vars(\E op \in OperationClasses, i \in 1..MaxTasks : WorkerRun(op, i))
    /\ WF_vars(\E i \in 1..MaxTasks : WorkerSave(i, "ok"))
    /\ WF_vars(RunCallback)
    /\ WF_vars(\E i \in 1..MaxTasks : RunTimer(i))

FairGuiSpec == GuiSpec /\ GuiFairness

(***************************************************************************)
(* C6: theme extraction returns the default theme "business and           *)
(* technology" whenever the post is empty after trimming.                 *)
(***************************************************************************)
C6_DefaultThemeOnEmptyPost ==
    (tgen # "none" /\ Strip(tpost) = <<>>) => ttheme = DefaultTheme

(***************************************************************************)
(* C7: for a non-empty post the theme is the first line with the leading  *)
(* markers stripped, at most 100 characters long, and it never begins     *)
(* with one of the markers.                                                *)
(***************************************************************************)
C7_ThemeHasNoLeadingMarker ==
    (tgen # "none" /\ tpost # <<>>) =>
        /\ Len(ttheme) <= ThemeLimit
        /\ \A i \in 1..Len(Markers) : ~StartsWith(ttheme, Markers[i])

(***************************************************************************)
(* Vocabulary of the claims about client calls                             *)
(***************************************************************************)
Finished(c) == c.pc \in {"returned", "raised"}
InLoop(c) == c.pc \in {"sleep", "request"}

IsRateLimited(r) == r.kind = "http" /\ r.status = 429
IsOtherError(r) ==
    \/ r.kind = "transport"
    \/ r.kind = "http" /\ r.status # 429 /\ r.status >= 400
AllRateLimited(resps) == \A i \in 1..Len(resps) : IsRateLimited(resps[i])

\* a 200 response whose body carries what the client is after
IsValidSuccess(m, r) ==
    /\ r.kind = "http"
    /\ r.status = 200
    /\ r.body \in CASE m \in {"classify_news", "generate_linkedin_post"} -> {"valid"}
                    [] m = "ImageGenerator.generate_image" -> {"output_str", "output_list"}
                    [] OTHER -> {"data_url"}

IsPrefix(s, t) == Len(s) <= Len(t) /\ SubSeq(t, 1, Len(s)) = s

(***************************************************************************)
(* C1: a call with non-empty input (and a token, for ImageGenerator)      *)
(* whose requests are all answered 429 goes on until it has issued        *)
(* exactly 3 requests and then returns the fixed rate-limit string; it    *)
(* never raises.                                                           *)
(***************************************************************************)
C1_RateLimitedThreeTimes ==
    \A t \in Threads :
        LET c == call[t]
        IN  (c.resps # <<>> /\ AllRateLimited(c.resps)) =>
                /\ c.requests = Len(c.resps)
                /\ c.requests <= 3
                /\ c.requests < 3 => InLoop(c)
                /\ c.requests = 3 => (c.pc = "returned" /\ c.ret = RateLimitMsg)

C1_Witness ==
    \E t \in Threads :
        /\ call[t].method = "ImageGenerator.generate_image"
        /\ call[t].pc = "returned"
        /\ call[t].requests = 3
        /\ AllRateLimited(call[t].resps)
        /\ call[t].ret = RateLimitMsg

(***************************************************************************)
(* C2: when the first request is answered 429 the call issues a second    *)
(* one, and when that one is answered 200 with a valid body the call      *)
(* issues no third request and returns the content of the second          *)
(* response: the message content for the chat clients, the local path or  *)
(* the URL for the image clients.                                          *)
(***************************************************************************)
C2_RetryThenSuccess ==
    \A t \in Threads :
        LET c == call[t]
        IN  /\ (Len(c.resps) = 1 /\ IsRateLimited(c.resps[1])) =>
                    (InLoop(c) /\ c.requests = 1)
            /\ ( /\ Len(c.resps) >= 2
                 /\ IsRateLimited(c.resps[1])
                 /\ IsValidSuccess(c.method, c.resps[2]) ) =>
                    /\ c.requests = 2
                    /\ c.pc \in {"download", "history", "returned"}
                    /\ c.pc = "returned" =>
                        c.ret = IF c.local_path # "" THEN c.local_path
                                ELSE c.resps[2].content

C2_Witness ==
    \E t \in Threads :
        /\ call[t].method = "classify_news"
        /\ call[t].pc = "returned"
        /\ call[t].requests = 2
        /\ IsRateLimited(call[t].resps[1])
        /\ call[t].resps[2].body = "valid"
        /\ call[t].ret = "content B"

(***************************************************************************)
(* C3: a transport error or an HTTP error status other than 429, on any   *)
(* attempt, ends the call at once with the formatted error string of the  *)
(* client; no request is issued after it.                                  *)
(***************************************************************************)
C3_OtherErrorEndsCall ==
    \A t \in Threads :
        LET c == call[t]
            n == Len(c.resps)
        IN  (n > 0 /\ IsOtherError(c.resps[n])) =>
                /\ c.pc = "returned"
                /\ c.requests = n
                /\ c.ret = ErrorPrefix(c.method) \o
                        (IF c.resps[n].kind = "transport"
                         THEN TransportErrorText
                         ELSE HTTPErrorText(c.resps[n].status))

C3_Witness ==
    \E t \in Threads :
        /\ call[t].method = "generate_linkedin_post"
        /\ call[t].pc = "returned"
        /\ Len(call[t].resps) = 3
        /\ call[t].resps[3].status = 500
        /\ call[t].ret = "Erro ao gerar post: 500 Error"

(***************************************************************************)
(* C4: every client method returns a value for every input and every      *)
(* remote outcome; no exception reaches the caller.                        *)
(***************************************************************************)
C4_NoExceptionReachesCaller ==
    \A t \in Threads : call[t].pc # "raised"

(***************************************************************************)
(* C5 (as claimed): without a token, generate_image returns the fixed     *)
(* token message and issues no request, for every post, the empty one     *)
(* included.                                                               *)
(***************************************************************************)
C5_Original ==
    \A t \in Threads :
        LET c == call[t]
        IN  ( /\ c.method = "ImageGenerator.generate_image"
              /\ Falsy(api_token)
              /\ Finished(c) ) =>
                (c.ret = NoTokenMsg /\ c.requests = 0)

(***************************************************************************)
(* C5 (amended): without a token, generate_image never enters the retry   *)
(* loop and issues no request and no download for any post; it returns    *)
(* the fixed token message for every non-empty post, and the "no post     *)
(* content" message for the empty post.                                    *)
(***************************************************************************)
C5_NoTokenFailsFast ==
    \A t \in Threads :
        LET c == call[t]
        IN  (c.method = "ImageGenerator.generate_image" /\ Falsy(api_token)) =>
                /\ c.pc = "returned"
                /\ c.requests = 0
                /\ c.downloads = 0
                /\ c.ret = IF c.arg = <<>> THEN NoPostMsg ELSE NoTokenMsg

C5_Witness ==
    \E t \in Threads :
        /\ call[t].method = "ImageGenerator.generate_image"
        /\ Falsy(api_token)
        /\ call[t].arg # <<>>
        /\ call[t].pc = "returned"
        /\ call[t].ret = NoTokenMsg
        /\ call[t].requests = 0

(***************************************************************************)
(* C8: after a successful creation response ImageGenerator.generate_image *)
(* returns the local path when the download succeeded, else the URL       *)
(* found in the output field (a string or the first element of a list),   *)
(* else the fixed "URL not found" string; a failed download never turns   *)
(* a found URL into an error.                                              *)
(***************************************************************************)
C8_ImageResult ==
    \A t \in Threads :
        LET c == call[t]
            n == Len(c.resps)
        IN  ( /\ c.method = "ImageGenerator.generate_image"
              /\ c.pc = "returned"
              /\ n > 0
              /\ c.resps[n].kind = "http"
              /\ c.resps[n].status = 200
              /\ c.resps[n].body # "invalid_json" ) =>
                IF c.resps[n].body \in {"output_str", "output_list"}
                THEN /\ c.downloads = 1
                     /\ c.downloaded = "ok" =>
                            /\ c.ret \in DOMAIN images
                            /\ images[c.ret] = [content |-> c.resps[n].content, complete |-> TRUE]
                     /\ c.downloaded # "ok" => c.ret = c.resps[n].content
                ELSE /\ c.downloads = 0
                     /\ c.ret = UrlNotFoundMsg

C8_Witness ==
    \E t \in Threads :
        /\ call[t].method = "ImageGenerator.generate_image"
        /\ call[t].pc = "returned"
        /\ call[t].downloaded = "write_failed"
        /\ call[t].resps[Len(call[t].resps)].body = "output_list"
        /\ call[t].ret = UrlB

(***************************************************************************)
(* C9: a generate_image call that obtained an image URL writes the        *)
(* history once; when the write succeeds the log gains exactly one        *)
(* record, the last one, carrying the call's URL and local path (the      *)
(* value returned when the download succeeded); when the write fails the  *)
(* failure is swallowed: nothing is raised and the returned value is the  *)
(* one a successful write would have given.                                *)
(***************************************************************************)
C9_ProvenanceRecord ==
    \A t \in Threads :
        LET c == call[t]
            n == Len(c.resps)
        IN  ( /\ c.method = "ImageGenerator.generate_image"
              /\ Finished(c)
              /\ n > 0
              /\ IsValidSuccess(c.method, c.resps[n]) ) =>
                /\ c.pc = "returned"
                /\ c.logged # "none"
                /\ c.ret = IF c.downloaded = "ok" THEN c.local_path ELSE c.resps[n].content
                /\ c.logged = "ok" =>
                        /\ c.appends = 1
                        /\ history # <<>>
                        /\ history[Len(history)].url = c.resps[n].content
                        /\ history[Len(history)].local = c.local_path
                        /\ c.downloaded = "ok" => history[Len(history)].local = c.ret
                /\ c.logged = "failed" => c.appends = 0

C9_Witness ==
    \E t \in Threads :
        /\ call[t].pc = "returned"
        /\ call[t].downloaded = "ok"
        /\ call[t].logged = "ok"
        /\ Len(history) = 1
        /\ history[1].url = UrlA
        /\ history[1].local = call[t].ret
        /\ call[t].ret = LocalPath(clock)

(***************************************************************************)
(* C10: the provenance log is append-only: every step leaves the earlier  *)
(* log as a prefix of the later one, and the log changes only by the one  *)
(* record that the history write of a generate_image call adds, at most   *)
(* once per call.                                                          *)
(***************************************************************************)
C10_AppendOnly ==
    [][ /\ IsPrefix(history, history')
        /\ history' # history =>
            /\ Len(history') = Len(history) + 1
            /\ \E t \in Threads :
                /\ call[t].method = "ImageGenerator.generate_image"
                /\ call[t].pc = "history"
                /\ call[t].appends = 0
                /\ call'[t].pc = "returned"
                /\ call'[t].appends = 1 ]_vars

C10_Witness ==
    /\ Len(history) = 2
    /\ \E t \in Threads : call[t].pc = "returned" /\ call[t].appends = 1

(***************************************************************************)
(* C11: when generate_image holds a local path (to record it in the log   *)
(* or to return it) the file at that path is completely written, closed   *)
(* and holds the downloaded bytes; a download that failed at the GET, at  *)
(* open or part-way through the write gives the empty local path, and the *)
(* call then returns the URL, never the path of the partial file.         *)
(***************************************************************************)
C11_LocalPathIsComplete ==
    \A t \in Threads :
        LET c == call[t]
        IN  ( /\ c.method = "ImageGenerator.generate_image"
              /\ c.pc \in {"history", "returned"}
              /\ c.downloads = 1 ) =>
                /\ c.downloaded = "ok" =>
                        /\ c.local_path # ""
                        /\ c.local_path \in DOMAIN images
                        /\ images[c.local_path] =
                                [content |-> c.image_url, complete |-> TRUE]
                /\ c.downloaded # "ok" =>
                        /\ c.local_path = ""
                        /\ c.pc = "returned" => c.ret \notin DOMAIN images
                /\ (c.pc = "returned" /\ c.logged = "ok") =>
                        LET rec == history[Len(history)]
                        IN  rec.local # "" =>
                                /\ rec.local \in DOMAIN images
                                /\ images[rec.local] =
                                        [content |-> rec.url, complete |-> TRUE]

C11_Witness ==
    \E t \in Threads :
        /\ call[t].pc = "returned"
        /\ call[t].downloaded = "write_failed"
        /\ call[t].local_path = ""
        /\ call[t].ret = call[t].image_url
        /\ \E p \in DOMAIN images : ~images[p].complete

(***************************************************************************)
(* Vocabulary of the claims about the search client                        *)
(***************************************************************************)
\* the terms of a list that are non-empty after trimming, trimmed, in input order
TrimmedTerms(queries) ==
    SelectSeq([k \in 1..Len(queries) |-> Strip(queries[k])], LAMBDA q : q # <<>>)

IsFailure(r) == IsRateLimited(r) \/ IsOtherError(r)

FailureText(r) ==
    IF r.kind = "transport" THEN TransportErrorText ELSE HTTPErrorText(r.status)

(***************************************************************************)
(* C12: search_multiple issues one request and appends one outcome for    *)
(* each term that is non-empty after trimming, in input order, and none   *)
(* for an empty or whitespace-only term: when it returns, the i-th        *)
(* outcome's query is the i-th non-empty trimmed term.                     *)
(***************************************************************************)
C12_OneOutcomePerTerm ==
    LET s == searching
        expected == TrimmedTerms(SubSeq(s.queries, 1, s.i - 1))
    IN  s.pc \in {"loop", "returned"} =>
            /\ Len(s.requests) = Len(expected)
            /\ Len(s.results) = Len(expected)
            /\ \A k \in 1..Len(expected) :
                    /\ s.requests[k].value = expected[k]
                    /\ s.results[k].query = expected[k]
            /\ s.pc = "returned" => expected = TrimmedTerms(s.queries)

C12_Witness ==
    /\ searching.pc = "returned"
    /\ searching.queries = << <<" ">>, <<"b", " ">> >>
    /\ Len(searching.requests) = 1
    /\ Len(searching.results) = 1
    /\ searching.results[1].query = <<"b">>

(***************************************************************************)
(* C13: each search issues exactly one request, also when answered 429;   *)
(* a transport failure or an HTTP error status gives a failed outcome     *)
(* with the error text, the query and the mode, and raises nothing; and   *)
(* search_multiple goes on to the remaining terms after a failed one.     *)
(***************************************************************************)
C13_SearchFailsSoft ==
    LET s == searching
    IN  /\ Len(s.requests) = Len(s.resps)
        /\ Len(s.requests) = Len(s.results) + (IF s.pc = "raised" THEN 1 ELSE 0)
        /\ \A k \in 1..Len(s.resps) :
                IsFailure(s.resps[k]) =>
                    /\ k <= Len(s.results)
                    /\ s.results[k] =
                            FailedOutcome(FailureText(s.resps[k]), s.requests[k].value, s.mode)
                    /\ s.requests[k].url = s.mode
        /\ (s.pc = "returned" /\ \A k \in 1..Len(s.resps) : IsFailure(s.resps[k])) =>
                Len(s.requests) = Len(TrimmedTerms(s.queries))

C13_Witness ==
    /\ searching.pc = "returned"
    /\ Len(searching.requests) = 2
    /\ IsRateLimited(searching.resps[1])
    /\ searching.results[1].status = "failed"
    /\ searching.results[1].error = "429 Error"
    /\ searching.resps[2].body = "json_object"
    /\ searching.results[2].status = "ok"

(***************************************************************************)
(* C14: classify_news called with the empty article list returns exactly  *)
(* "Nenhuma notícia para classificar." at once: no request is issued and  *)
(* no delay is waited.                                                     *)
(***************************************************************************)
C14_EmptyListShortCircuits ==
    \A t \in Threads :
        LET c == call[t]
        IN  (c.method = "classify_news" /\ c.arg = <<>>) =>
                /\ c.pc = "returned"
                /\ c.ret = "Nenhuma notícia para classificar."
                /\ c.requests = 0
                /\ c.waits = <<>>
                /\ c.resps = <<>>

C14_Witness ==
    \E t \in Threads :
        /\ call[t].method = "classify_news"
        /\ call[t].arg = <<>>
        /\ call[t].pc = "returned"
        /\ call[t].ret = NoArticlesMsg
        /\ call[t].waits = <<>>

(***************************************************************************)
(* C15: each of the three post-generation entry points (from the          *)
(* classification text, from one article, from free text) returns a fixed *)
(* message and issues no request when its input is empty, and with a      *)
(* non-empty input runs the retry loop: it issues between one and three   *)
(* requests before it ends, three when every answer is 429.               *)
(***************************************************************************)
C15_ThreeEntryPoints ==
    \A t \in Threads :
        LET c == call[t]
        IN  c.method \in PostEntryPoints =>
                /\ c.arg = <<>> =>
                        (c.pc = "returned" /\ c.requests = 0 /\ c.ret # "")
                /\ (c.arg # <<>> /\ Finished(c)) =>
                        (c.requests >= 1 /\ c.requests <= max_retries)
                /\ (c.pc = "returned" /\ c.resps # <<>> /\ AllRateLimited(c.resps)) =>
                        c.requests = max_retries

ImageWriters == { i \in 1..Len(workers["image"]) : workers["image"][i].pc = "saving" }

C18_AbortDoesNotCancel ==
    [][ (on_abort \/ on_clear) =>
            /\ workers' = workers
            /\ after_queue' = after_queue
            /\ timers' = timers
            /\ history' = history /\ images' = images
            /\ view'.search_entry = "" /\ view'.results_text = ""
            /\ view'.current_articles = <<>>
            /\ view'.current_classification = ""
            /\ view'.current_post = ""
            /\ view'.current_image_url = "" /\ view'.current_local_image_path = ""
            /\ view'.classify_button = "disabled" /\ view'.classify_packed
            /\ view'.abort_button = "hidden"
            /\ view'.generate_post_button = "hidden"
            /\ view'.generate_image_button = "hidden"
            /\ view'.show_modal_button = "hidden"
            /\ view'.search_button = view.search_button ]_vars

\* the entry is empty only after a reset once terms were typed: the classification
\* shown was written by a callback delivered after the reset, of a task (or of the
\* search before it) that was in flight when the reset ran
C18_Witness ==
    /\ view.search_entry = ""
    /\ view.current_classification # ""
    /\ view.status_label = "Classification complete"
    /\ view.abort_button = "normal"

(***************************************************************************)
(* C19: each worker schedules exactly one UI callback per completion, on   *)
(* success and on error alike: a step in which a background task ends adds *)
(* exactly one callback to those scheduled with root.after.  Violated by   *)
(* _perform_image_generation, which schedules _display_generated_image and *)
(* enable_modal_button for one result.                                     *)
(***************************************************************************)
Scheduled == Len(after_queue) + Len(timers)

TaskEnds ==
    /\ \A c \in OperationClasses : Len(workers'[c]) <= Len(workers[c])
    /\ \E c \in OperationClasses : Len(workers'[c]) < Len(workers[c])

C20_OnlyTheKeyIsMandatory ==
    /\ \A key \in NewsApiKeys, token \in ApiTokens :
            /\ Config_validate(key, token).act = "raise" <=> Falsy(key)
            /\ Falsy(key) => Config_validate(key, token) = Raise(MissingKeyMsg)
    /\ app.pc = "running" =>
            /\ app.api_connected <=> ~Falsy(NEWS_API_KEY)
            /\ app.api_error = IF Falsy(NEWS_API_KEY) THEN MissingKeyMsg ELSE NoneValue
    /\ \A c \in OperationClasses : \A i \in 1..Len(workers[c]) :
            LET task == workers[c][i]
            IN  (Falsy(api_token) /\ task.pc = "started") =>
                    IF c = "image"
                    THEN WorkerOutcomes(task) = { Return(NoTokenMsg) }
                    ELSE app.api_connected =>
                            \E o \in WorkerOutcomes(task) :
                                o.act = "return" /\ o.val # NoTokenMsg

\* without a token the application started, searched, classified and generated a post,
\* and the image generation reported the missing token
C20_Witness ==
    /\ Falsy(api_token)
    /\ app.api_connected
    /\ view.current_classification # ""
    /\ view.current_post # ""
    /\ view.current_image_url = NoTokenMsg

(***************************************************************************)
(* C21: a failure of one operation never corrupts the state of the others. *)
(* When a task ends in an error (its worker raises, and its error callback *)
(* runs or dies on the unbound name) the stored articles, classification,  *)
(* post and image fields, the image files and the provenance log are left  *)
(* unchanged; and a result that is delivered, an error string included,    *)
(* changes only the stored fields of its own operation class.              *)
(***************************************************************************)
ErrorCallbacks ==
    { "_display_error", "_display_classification_error",
      "_display_post_generation_error", "_display_image_generation_error" }

\* the stored fields each operation class writes when its result is displayed
StoredFields(c) ==
    CASE c = "search" -> {"current_articles"}
      [] c = "classification" -> {"current_classification"}
      [] c = "post" -> {"current_post"}
      [] OTHER -> {"current_image_url", "current_local_image_path"}

AllStoredFields == UNION { StoredFields(c) : c \in OperationClasses }

ClassOf(kind) ==
    CHOOSE c \in OperationClasses : kind \in {SuccessCallback(c), ErrorCallback(c)}

\* a worker step in which the client call raised
WorkerRaises ==
    /\ Len(after_queue') = Len(after_queue) + 1
    /\ after_queue'[Len(after_queue')].kind \in ErrorCallbacks

C21_FailureIsIsolated ==
    [][ /\ WorkerRaises =>
              /\ view' = view
              /\ history' = history
              /\ images' = images
        /\ RunCallback =>
              LET cb == Head(after_queue)
              IN  /\ history' = history
                  /\ images' = images
                  /\ cb.kind \in ErrorCallbacks =>
                        \A f \in AllStoredFields : view'[f] = view[f]
                  /\ cb.kind \notin ErrorCallbacks =>
                        \A f \in AllStoredFields \ StoredFields(ClassOf(cb.kind)) :
                            view'[f] = view[f] ]_vars

\* a classification failed and its error was displayed while the articles, an earlier
\* classification, a post, an image and its log record were in place
C21_Witness ==
    /\ view.status_label = "Classification error"
    /\ view.current_articles # <<>>
    /\ view.current_classification # ""
    /\ view.current_post # ""
    /\ view.current_local_image_path # ""
    /\ history # <<>>

(***************************************************************************)
(* C22: a generation client call that enters the retry loop runs           *)
(* pre-delay, attempt 1, ..., attempt n with n <= 3: a further attempt is  *)
(* started only after a 429 answer and only while fewer than 3 requests    *)
(* were issued; a call that has ended (returned or raised) issues no       *)
(* request any more; and, every request being answered or timing out,      *)
(* every call ends, having issued at most 3 requests.                      *)
(***************************************************************************)
C22_Shape ==
    \A t \in Threads :
        LET c == call[t]
            n == Len(c.resps)
        IN  /\ c.requests = n
            /\ c.requests <= max_retries
            /\ \A i \in 1..(n - 1) : IsRateLimited(c.resps[i])
            /\ InLoop(c) => (AllRateLimited(c.resps) /\ c.attempt = n /\ n < max_retries)
            /\ Len(c.waits) = IF c.pc = "request" THEN n + 1 ELSE n

C22_Terminal ==
    \A t \in Threads :
        /\ call'[t].requests > call[t].requests =>
                (call[t].pc = "request" /\ call'[t].requests = call[t].requests + 1)
        /\ (Finished(call[t]) /\ call'[t] # call[t]) => call'[t] = IdleCall

C22_RetryStateMachine ==
    /\ []C22_Shape
    /\ [][C22_Terminal]_vars
    /\ \A t \in Threads : (call[t].pc # "idle") ~> Finished(call[t])

C22_Witness ==
    \E t \in Threads :
        /\ call[t].method = "T2IGenerator.generate_image"
        /\ call[t].pc = "returned"
        /\ call[t].requests = 3
        /\ IsRateLimited(call[t].resps[2])
        /\ call[t].resps[3].body = "data_url"

(***************************************************************************)
(* C23: in every generation client each request is preceded by exactly one *)
(* wait, the waits are 0.5 s before the first request, 4 s before the      *)
(* second and 8 s before the third, and no wait follows the last request:  *)
(* a call that has ended waited 0.5 s, 4.5 s or 12.5 s in total when it    *)
(* made 1, 2 or 3 requests (times in milliseconds).                        *)
(***************************************************************************)
WaitSchedule == <<500, 4000, 8000>>

RECURSIVE SumSeq(_)
SumSeq(q) == IF q = <<>> THEN 0 ELSE Head(q) + SumSeq(Tail(q))

C23_WaitSchedule ==
    \A t \in Threads :
        LET c == call[t]
        IN  /\ Len(c.waits) <= 3
            /\ \A i \in 1..Len(c.waits) : c.waits[i] = WaitSchedule[i]
            /\ c.pc = "request" => Len(c.waits) = c.requests + 1
            /\ c.pc # "request" => Len(c.waits) = c.requests
            /\ Finished(c) =>
                    SumSeq(c.waits) = CASE c.requests = 0 -> 0
                                        [] c.requests = 1 -> 500
                                        [] c.requests = 2 -> 4500
                                        [] OTHER -> 12500

C23_Witness ==
    \E t \in Threads :
        /\ call[t].method = "generate_linkedin_post"
        /\ call[t].pc = "returned"
        /\ call[t].requests = 3
        /\ call[t].waits = <<500, 4000, 8000>>
        /\ call[t].resps[3].body = "valid"

(***************************************************************************)
(* C24: on a 2xx chat-completion response classify_news and                *)
(* generate_linkedin_post return the first choice's message content when   *)
(* the body has a non-empty choices list, and the fixed "formato           *)
(* inesperado" string when the body lacks choices or has an empty list; no *)
(* request follows that response.  Violated by a non-empty choices list    *)
(* whose first element has no message content: the lookup raises KeyError  *)
(* (the defect of C4).                                                     *)
(***************************************************************************)
ChatMethods == {"classify_news", "generate_linkedin_post"}

NonEmptyChoices(r) == r.body \in {"valid", "malformed"}
NoChoices(r) == r.body \in {"nochoices", "emptychoices"}

C24_ChoicesDecideResult ==
    \A t \in Threads :
        LET c == call[t]
            n == Len(c.resps)
        IN  ( /\ c.method \in ChatMethods
              /\ n > 0
              /\ c.resps[n].kind = "http"
              /\ c.resps[n].status = 200
              /\ NonEmptyChoices(c.resps[n]) \/ NoChoices(c.resps[n]) ) =>
                /\ c.pc = "returned"
                /\ c.requests = n
                /\ c.ret = IF NonEmptyChoices(c.resps[n]) THEN c.resps[n].content
                           ELSE UnexpectedFormatMsg

(***************************************************************************)
(* C25: a button disabled when its operation is dispatched is enabled      *)
(* again once the operation has completed, on success and on error alike:  *)
(* with worker threads and UI callbacks scheduled fairly, a disabled       *)
(* search, classify, generate-post, generate-image or abort button is      *)
(* eventually enabled again.  Violated: the callbacks of a generated post  *)
(* and of a generated image leave their own button disabled, and an error  *)
(* callback that finds its exception unbound re-enables nothing.           *)
(***************************************************************************)
DispatchDisabled ==
    {"search_button", "generate_post_button", "generate_image_button", "abort_button"}

C26_FallThroughUnreachable ==
    \A t \in Threads :
        LET c == call[t]
        IN  /\ \A m \in Methods : c.ret # FallThroughMsg(m)
            /\ (c.pc = "sleep" /\ c.requests > 0) => c.attempt <= max_retries - 1
            /\ (c.requests = max_retries /\ c.pc # "idle") =>
                    c.pc \in {"returned", "raised", "download", "history"}

\* the loop ran out of iterations on a third 429 and left by the return in the
\* rate-limit branch
C26_Witness ==
    \E t \in Threads :
        /\ call[t].method = "classify_news"
        /\ call[t].pc = "returned"
        /\ call[t].attempt = max_retries - 1
        /\ IsRateLimited(call[t].resps[3])
        /\ call[t].ret = RateLimitMsg

(***************************************************************************)
(* C27: a generate_image call that obtains no image URL (empty post, no    *)
(* token, rate limit exhausted, transport or HTTP error, a response        *)
(* without a usable output field) leaves the images directory and the      *)
(* provenance log unchanged and issues no download request; a download is  *)
(* attempted and a record appended only after a creation response that     *)
(* yields a non-empty URL.                                                 *)
(***************************************************************************)
ObtainedUrl(c) ==
    /\ c.resps # <<>>
    /\ IsValidSuccess(c.method, c.resps[Len(c.resps)])
    /\ c.resps[Len(c.resps)].content # ""
    /\ c.image_url = c.resps[Len(c.resps)].content

C27_NoUrlNoWrite ==
    \A t \in Threads :
        LET c == call[t]
        IN  /\ (c.pc \in {"download", "history"} \/ c.downloads > 0 \/ c.appends > 0) =>
                    (c.method = "ImageGenerator.generate_image" /\ ObtainedUrl(c))
            /\ (Finished(c) /\ ~ObtainedUrl(c)) =>
                    (c.downloads = 0 /\ c.appends = 0 /\ c.image_url = "")

C27_WritesOnlyWithUrl ==
    (images' # images \/ history' # history) =>
        \E t \in Threads :
            /\ call[t].pc \in {"download", "history"}
            /\ ObtainedUrl(call[t])

C27_NoUrlLeavesFilesAlone ==
    []C27_NoUrlNoWrite /\ [][C27_WritesOnlyWithUrl]_vars

\* after one image was saved and logged, a call whose response had an empty output
\* list ended without a download and without a record
C27_Witness ==
    \E t \in Threads :
        /\ call[t].method = "ImageGenerator.generate_image"
        /\ call[t].pc = "returned"
        /\ call[t].resps # <<>>
        /\ call[t].resps[Len(call[t].resps)].body = "output_empty_list"
        /\ call[t].ret = UrlNotFoundMsg
        /\ call[t].downloads = 0
        /\ Len(history) = 1
        /\ Cardinality(DOMAIN images) = 1

(***************************************************************************)
(* C28: the orchestration layer treats every string a client returns as a  *)
(* successful result.  Whatever the string, an error message included, the *)
(* callback of a classification, post or image result stores it as         *)
(* current_classification, current_post or current_image_url, sets the     *)
(* success status and enables the next stage's button; an error callback   *)
(* is scheduled only for a worker that raised.                             *)
(***************************************************************************)
ExceptionNames == {"AttributeError", "KeyError", "ValueError", "TypeError"}

C28_ErrorPathOnlyOnRaise ==
    \A i \in 1..Len(after_queue) :
        LET cb == after_queue[i]
        IN  /\ cb.kind \in ErrorCallbacks => cb.val \in ExceptionNames
            /\ cb.kind \in {"_display_classification", "_display_generated_post",
                             "_display_generated_image"} => cb.val \notin ExceptionNames

C28_StoredAsSuccess ==
    (RunCallback /\ Head(after_queue).bound) =>
        LET cb == Head(after_queue)
        IN  /\ cb.kind = "_display_classification" =>
                    /\ view'.current_classification = cb.val
                    /\ view'.status_label = "Classification complete"
                    /\ view'.generate_post_button = "normal"
            /\ cb.kind = "_display_generated_post" =>
                    /\ view'.current_post = cb.val
                    /\ view'.status_label = "LinkedIn post generated"
                    /\ view'.generate_image_button = "normal"
            /\ cb.kind = "_display_generated_image" =>
                    /\ view'.current_image_url = cb.val
                    /\ view'.status_label = "Image generated"
                    /\ view'.show_modal_button = "normal"

C28_ErrorStringIsSuccess ==
    []C28_ErrorPathOnlyOnRaise /\ [][C28_StoredAsSuccess]_vars

\* each stage stored the error string of its client and the workflow went on to the
\* modal button
C28_Witness ==
    /\ view.current_classification = "Erro ao classificar notícias: 500 Error"
    /\ view.current_post = "Erro ao gerar post: 500 Error"
    /\ view.current_image_url = NoTokenMsg
    /\ view.status_label = "Image generated"
    /\ view.show_modal_button = "normal"

(***************************************************************************)
(* C29: distinct successful image generations yield distinct local file    *)
(* paths: no downloaded image is overwritten by a later download, and the  *)
(* local path of every provenance record names a complete file holding the *)
(* bytes of its own generation.  Violated by two downloads within the same *)
(* second, which get the same file name.                                   *)
(***************************************************************************)
C29_DistinctLocalPaths ==
    /\ \A i, j \in 1..Len(history) :
            (i # j /\ history[i].local # "") => history[i].local # history[j].local
    /\ \A i \in 1..Len(history) :
            history[i].local # "" =>
                /\ history[i].local \in DOMAIN images
                /\ images[history[i].local] = [content |-> history[i].url, complete |-> TRUE]

====
